---------------------------- MODULE Spec2Model ----------------------------
(***************************************************************************)
(* Smart Study Partner (src/Main.py): a Streamlit script.  Every user      *)
(* interaction runs the script once from top to bottom against the         *)
(* session state; st.rerun() ends the run and starts a fresh one in which  *)
(* no widget is triggered.  The model has one action per widget event,     *)
(* which is the script run the event starts, up to its end or to its       *)
(* st.rerun(), and the action Rerun, which is the run st.rerun() starts.   *)
(*                                                                         *)
(* Texts (paragraphs, API responses) are sequences of characters, so that  *)
(* str.strip() and the two re.sub() calls are computed, not assumed.       *)
(* Python's None is the empty sequence and a present value v is <<v>>.     *)
(***************************************************************************)
EXTENDS Integers, Sequences, FiniteSets, TLC

\* ------------------------------------------------------------------ bounds
\* Longest quiz a response of the session model carries.
MaxQuiz == 1
\* Most paragraphs the session model stores.
MaxPars == 1
\* The clock of the session model runs over the minutes 0..MaxClock.
MaxClock == 1
\* Longest quiz the grading model grades.
MaxGrade == 5
\* Most records of one attempt the session model counts.
MaxRecorded == 2

\* --------------------------------------------------------- Python values
None == <<>>
Some(v) == <<v>>
IsNone(o) == o = <<>>
Val(o) == o[1]

\* The backtick character (written out: the lexer reserves the character).
Backtick == "tick"
NL == "\n"
SP == " "

\* str.isspace() over the model's alphabet: what \s and str.strip() remove.
IsSpace(c) == c \in {SP, NL, "\t"}

RECURSIVE lstrip(_)
lstrip(s) == IF s = <<>> THEN s
             ELSE IF IsSpace(Head(s)) THEN lstrip(Tail(s)) ELSE s

RECURSIVE rstrip(_)
rstrip(s) == IF s = <<>> THEN s
             ELSE IF IsSpace(s[Len(s)]) THEN rstrip(SubSeq(s, 1, Len(s) - 1)) ELSE s

\* str.strip()
strip(s) == rstrip(lstrip(s))

StartsWith(s, p) == Len(s) >= Len(p) /\ SubSeq(s, 1, Len(p)) = p
EndsWith(s, p) == Len(s) >= Len(p) /\ SubSeq(s, Len(s) - Len(p) + 1, Len(s)) = p

Fence == <<Backtick, Backtick, Backtick>>
FenceJson == Fence \o <<"j", "s", "o", "n">>

\* `not text or not text.strip()` (line 33)
text_is_blank(text) == text = <<>> \/ strip(text) = <<>>

\* re.sub(r'^```json\s*', '', result)  (line 91)
sub_leading_fence(result) ==
    IF StartsWith(result, FenceJson)
    THEN lstrip(SubSeq(result, Len(FenceJson) + 1, Len(result)))
    ELSE result

\* The pattern written '.*```$': the whole last line goes with the fence.
RECURSIVE LastLineStart(_, _)
LastLineStart(s, i) == IF i = 0 THEN 1
                       ELSE IF s[i] = NL THEN i + 1 ELSE LastLineStart(s, i - 1)

sub_trailing_fence_greedy(result) ==
    LET n == Len(result) IN
    IF EndsWith(result, Fence)
    THEN SubSeq(result, 1, LastLineStart(result, n) - 1)
    ELSE result

\* re.sub(r'\s*```$', '', result)  (line 92).  `$` matches at the end of the
\* string and also just before a newline that ends the string.
sub_trailing_fence(result) ==
    LET n == Len(result) IN
    IF EndsWith(result, Fence)
    THEN rstrip(SubSeq(result, 1, n - 3))
    ELSE IF n >= 4 /\ result[n] = NL /\ SubSeq(result, n - 3, n - 1) = Fence
         THEN rstrip(SubSeq(result, 1, n - 4)) \o <<NL>>
         ELSE result

\* Lines 91-93: the response cleaned of its markdown fence.
clean_response(result) == strip(sub_trailing_fence(sub_leading_fence(result)))


\* ------------------------------------------------- the model's JSON dialect
\* json.loads is library code.  The model's documents are written in a small
\* dialect that keeps what the pipeline reads: an object is "{" ... "}", the
\* character "Q" inside it is the member "quiz": [...], and each character
\* after "Q" is one entry of that list.  "5" is a document that is valid JSON
\* but not an object.  Anything else is a JSONDecodeError.
ItemChars == {"a", "b", "c", "d", "m", "o", "q", "n"}

\* The question entry an item character stands for.  "c" names an answer that
\* is none of its options, "d" repeats an option; "m" lacks the answer key,
\* "o" the options key, "q" the question key; "n" is an entry with
\* "options": 5, a number where the list should be (options_type says so,
\* the options field of the record is not read).
DecodeItem(c) ==
    CASE c = "a" -> [question |-> "Q1", options |-> <<"a) W", "b) X">>, answer |-> "b) X"]
      [] c = "b" -> [question |-> "Q2", options |-> <<"a) Y", "b) Y">>, answer |-> "a) Y"]
      [] c = "c" -> [question |-> "Q3", options |-> <<"a) Z">>, answer |-> "c) Z"]
      [] c = "d" -> [question |-> "Q4", options |-> <<"a) V", "a) V", "b) V">>, answer |-> "a) V"]
      [] c = "o" -> [question |-> "Q6", answer |-> "a) T"]
      [] c = "q" -> [options |-> <<"a) S", "b) S">>, answer |-> "a) S"]
      [] c = "n" -> [question |-> "Q7", options |-> <<>>, answer |-> "a) N",
                     options_type |-> "int"]
      [] OTHER   -> [question |-> "Q5", options |-> <<"a) U", "b) U">>]

\* json.loads(s): [ok |-> FALSE] is JSONDecodeError; otherwise the value.
json_loads(s) ==
    LET t == strip(s)
        n == Len(t)
        body == SubSeq(t, 2, n - 1)
    IN  IF t = <<"5">>
        THEN [ok |-> TRUE, is_dict |-> FALSE, quiz |-> None]
        ELSE IF n >= 2 /\ t[1] = "{" /\ t[n] = "}"
        THEN IF body = <<>>
             THEN [ok |-> TRUE, is_dict |-> TRUE, quiz |-> None]
             ELSE IF body[1] = "Q" /\ \A i \in 2..Len(body) : body[i] \in ItemChars
                  THEN [ok |-> TRUE, is_dict |-> TRUE,
                        quiz |-> Some([i \in 1..(Len(body) - 1) |-> DecodeItem(body[i + 1])])]
                  ELSE [ok |-> FALSE]
        ELSE [ok |-> FALSE]

\* re.search(r'\{.*\}', result, re.DOTALL) (line 99): from the first "{" to
\* the last "}" after it; None when there is no such span.
search_braces(result) ==
    LET opens == {i \in 1..Len(result) : result[i] = "{"}
        first == CHOOSE i \in opens : \A k \in opens : i <= k
        closes == {j \in 1..Len(result) : result[j] = "}" /\ j > first}
        last == CHOOSE j \in closes : \A k \in closes : k <= j
    IN  IF opens = {} THEN None
        ELSE IF closes = {} THEN None
        ELSE Some(SubSeq(result, first, last))

\* Lines 95-106: the two-stage parse.  [ok |-> FALSE] is the return of
\* "Failed to parse quiz response."
parse_response(result) ==
    LET direct == json_loads(result)
        match == search_braces(result)
    IN  IF direct.ok THEN direct
        ELSE IF IsNone(match) THEN [ok |-> FALSE]
        ELSE json_loads(Val(match))

\* ------------------------------------------------------- option shuffle
\* random.shuffle(x) is library code: for i from len(x)-1 down to 1 it draws
\* j in 0..i and exchanges x[i] and x[j].  Picks(n) is every sequence of
\* draws; r[i] is the draw made for i.
Picks(n) == {r \in [1..(n - 1) -> 0..(n - 1)] : \A i \in 1..(n - 1) : r[i] <= i}

Swap(x, i, j) == [x EXCEPT ![i] = x[j], ![j] = x[i]]

RECURSIVE ShuffleFrom(_, _, _)
ShuffleFrom(x, r, i) == IF i < 1 THEN x
                        ELSE ShuffleFrom(Swap(x, i + 1, r[i] + 1), r, i - 1)

\* random.shuffle(x) under the draws r.
shuffle(x, r) == ShuffleFrom(x, r, Len(x) - 1)

\* The options reassigned with one entry lost.
shuffle_question_dropping(q, r) ==
    LET shuffled == shuffle(q.options, r)
    IN  [q EXCEPT !.options = SubSeq(shuffled, 1, Len(shuffled) - 1)]

\* Lines 116-118: correct = q["answer"]; random.shuffle(q["options"]);
\* q["answer"] = correct.
shuffle_question(q, r) ==
    LET correct == q.answer
        q1 == [q EXCEPT !.options = shuffle(q.options, r)]
    IN  [q1 EXCEPT !.answer = correct]

\* Line 115
question_is_valid(q) == {"options", "answer", "question"} \subseteq DOMAIN q

\* random.shuffle raises TypeError on what is no list (line 117).
shuffle_raises(q) == "options_type" \in DOMAIN q

\* Lines 114-120: the loop over the questions, for every outcome of the
\* draws.  [ok |-> FALSE] is the return of "Invalid question format
\* received." at the first entry that lacks a key; with `raised` it is the
\* exception of a shuffle, which ends the loop as well.
RECURSIVE shuffle_loop(_)
shuffle_loop(qs) ==
    IF qs = <<>> THEN {[ok |-> TRUE, quiz |-> <<>>]}
    ELSE IF ~question_is_valid(Head(qs)) THEN {[ok |-> FALSE, quiz |-> <<>>]}
    ELSE IF shuffle_raises(Head(qs)) THEN {[ok |-> FALSE, quiz |-> <<>>, raised |-> "TypeError"]}
    ELSE {IF rest.ok THEN [ok |-> TRUE, quiz |-> <<h>> \o rest.quiz] ELSE rest :
             h \in {shuffle_question(Head(qs), r) : r \in Picks(Len(Head(qs).options))},
             rest \in shuffle_loop(Tail(qs))}

\* ------------------------------------------------------- generate_quiz
\* What requests.post and response.json() can give back (library code):
\*   kind "timeout"  requests.exceptions.Timeout is raised
\*   kind "network"  another requests.exceptions.RequestException is raised
\*   kind "http"     a response with `status`; has_content says whether
\*                   response.json()["choices"][0]["message"]["content"]
\*                   can be read, and `content` is that text.
Outcome(kind, status, has_content, content) ==
    [kind |-> kind, status |-> status, has_content |-> has_content, content |-> content]

MsgNoText == "Please provide text to generate questions from."
MsgNoKey == "API key is required."
MsgBadKey == "Invalid API key. Please check your OpenAI API key."
MsgRateLimit == "Rate limit exceeded. Please try again in a moment."
MsgApiError(status) == "API Error " \o ToString(status)
MsgParse == "Failed to parse quiz response."
MsgNoQuestions == "No questions were generated. Try with more text."
MsgFormat == "Invalid question format received."
MsgTimeout == "Request timed out. Please try again."
MsgNetwork == "Network error"
MsgUnexpected == "Unexpected error"

\* A return of generate_quiz: the pair (quiz, error), and whether the call
\* got as far as requests.post (line 78).
Return(quiz, error, posted) == [quiz |-> quiz, error |-> error, posted |-> posted]
Failure(msg, posted) == Return(None, Some(msg), posted)

\* An exception on its way out of a block.
Raise(name) == [raised |-> name]
IsRaise(o) == "raised" \in DOMAIN o

\* Lines 88-122: from the response body to the return, or to the exception
\* raised on the way: by response.json() or the indexing of line 88, by
\* quiz_data.get on a document that is no object (line 108).
from_response(resp) ==
    LET parsed == parse_response(clean_response(resp.content))
        quiz_questions == IF IsNone(parsed.quiz) THEN <<>> ELSE Val(parsed.quiz)
    IN  IF ~resp.has_content THEN {Raise("RequestException"), Raise("KeyError")}
        ELSE IF ~parsed.ok THEN {Failure(MsgParse, TRUE)}
        ELSE IF ~parsed.is_dict THEN {Raise("AttributeError")}
        ELSE IF quiz_questions = <<>> THEN {Failure(MsgNoQuestions, TRUE)}
        ELSE {IF l.ok THEN Return(Some(l.quiz), None, TRUE)
              ELSE IF IsRaise(l) THEN Raise(l.raised)
              ELSE Failure(MsgFormat, TRUE) :
                 l \in shuffle_loop(quiz_questions)}

\* Lines 78-122: the body of the try statement.
try_block(resp) ==
    IF resp.kind = "timeout" THEN {Raise("Timeout")}
    ELSE IF resp.kind = "network" THEN {Raise("RequestException")}
    ELSE IF resp.status # 200
    THEN {Failure(IF resp.status = 401 THEN MsgBadKey
                  ELSE IF resp.status = 429 THEN MsgRateLimit
                  ELSE MsgApiError(resp.status), TRUE)}
    ELSE from_response(resp)

\* The except clauses without the last one.
except_clauses_of_requests(o) ==
    IF ~IsRaise(o) THEN o
    ELSE IF o.raised = "Timeout" THEN Failure(MsgTimeout, TRUE)
    ELSE IF o.raised = "RequestException" THEN Failure(MsgNetwork, TRUE)
    ELSE o

\* Lines 124-129: the except clauses, in their order.
except_clauses(o) ==
    IF ~IsRaise(o) THEN o
    ELSE IF o.raised = "Timeout" THEN Failure(MsgTimeout, TRUE)
    ELSE IF o.raised = "RequestException" THEN Failure(MsgNetwork, TRUE)
    ELSE Failure(MsgUnexpected, TRUE)

\* The call made whatever the text is.
generate_quiz_unchecked(text, num_questions, api_key, resp) ==
    IF api_key = "" THEN {Failure(MsgNoKey, FALSE)}
    ELSE {except_clauses(o) : o \in try_block(resp)}

\* generate_quiz(text, num_questions) (lines 31-129) with the module's
\* API_KEY and the outcome `resp` of the request: the set of its possible
\* returns, one for each outcome of the shuffles.
generate_quiz(text, num_questions, api_key, resp) ==
    IF text_is_blank(text) THEN {Failure(MsgNoText, FALSE)}
    ELSE IF api_key = "" THEN {Failure(MsgNoKey, FALSE)}
    ELSE {except_clauses(o) : o \in try_block(resp)}

\* `if error:` (line 480) and `elif quiz:` (line 482): Python truthiness of
\* a string-or-None and of a list-or-None.
error_is_truthy(error) == ~IsNone(error) /\ Val(error) # ""
quiz_is_truthy(q) == ~IsNone(q) /\ Len(Val(q)) > 0

\* ------------------------------------------------------------ the session
VARIABLES
    page,           \* st.session_state.page
    paragraphs,     \* st.session_state.paragraphs
    quiz,           \* st.session_state.quiz
    user_answers,   \* st.session_state.user_answers: index -> option or None
    quiz_ready,     \* st.session_state.quiz_ready
    show_results,   \* st.session_state.show_results
    quiz_history,   \* st.session_state.quiz_history
    API_KEY,        \* the module's API_KEY
    now,            \* datetime.now() at minute resolution
    view,           \* what the last complete script run put on the screen
    event,          \* the widget the last script run was started by
    returned,       \* what generate_quiz returned in the last script run
    rerun,          \* st.rerun() was called: the script is about to run again
    call,           \* a function of the program and the arguments it is applied to
    result,         \* what that function returned
    attempt_records \* records the results view appended since the attempt was submitted

\* The display preferences are left out: dark_mode only selects the style
\* sheet, num_questions only goes into the prompt, and current_paragraph is
\* never read.  Their widgets are kept for the runs they start.
session == <<page, paragraphs, quiz, user_answers, quiz_ready, show_results,
             quiz_history>>
vars == <<page, paragraphs, quiz, user_answers, quiz_ready, show_results,
          quiz_history, API_KEY, now, view, event, returned, rerun, call, result,
          attempt_records>>

\* The session state as one value, for the operators that compute a run.
State == [page |-> page, paragraphs |-> paragraphs, quiz |-> quiz,
          user_answers |-> user_answers, quiz_ready |-> quiz_ready,
          show_results |-> show_results, quiz_history |-> quiz_history]

\* init_session_state (lines 134-150)
defaults == [page |-> "main", paragraphs |-> <<>>, quiz |-> <<>>,
             user_answers |-> <<>>, quiz_ready |-> FALSE, show_results |-> FALSE,
             quiz_history |-> <<>>]

\* dict.get(i)
Get(d, i) == IF i \in DOMAIN d THEN d[i] ELSE None

Elems(x) == {x[i] : i \in 1..Len(x)}

\* Line 511: the number of keys of user_answers with a value that is not None.
answered_count(S) == Cardinality({k \in DOMAIN S.user_answers : S.user_answers[k] # None})

\* Submit enabled whatever is answered.
submit_never_disabled(S) == FALSE

\* Line 521: disabled=(answered < len(quiz))
submit_disabled(S) == answered_count(S) < Len(S.quiz)

\* --------------------------------------------------------------- grading
RECURSIVE Gcd(_, _)
Gcd(a, b) == IF b = 0 THEN a ELSE Gcd(b, a % b)

\* A rational number in lowest terms (den > 0): the model's float.
Frac(n, d) == LET g == Gcd(n, d) IN [num |-> n \div g, den |-> d \div g]
FracGeq(f, k) == f.num >= k * f.den

\* user_ans == correct_ans (line 569): user_ans is an option string or None.
is_correct(user_ans, correct_ans) == user_ans = Some(correct_ans)

\* The bands with the 80 left out of the first.
band_strict(percentage) ==
    IF percentage.num > 80 * percentage.den THEN "Excellent work!"
    ELSE IF FracGeq(percentage, 60) THEN "Good job!"
    ELSE "Keep studying!"

\* Lines 594-602
band(percentage) ==
    IF FracGeq(percentage, 80) THEN "Excellent work!"
    ELSE IF FracGeq(percentage, 60) THEN "Good job!"
    ELSE "Keep studying!"

\* Lines 562-602: the score card of the results view.
grade(quiz_, answers) ==
    LET total == Len(quiz_)
        score == Cardinality({i \in 0..(total - 1) :
                                 is_correct(Get(answers, i), quiz_[i + 1].answer)})
        percentage == Frac(score * 100, total)
    IN  [score |-> score, total |-> total, percentage |-> percentage,
         message |-> band(percentage)]

\* ---------------------------------------------------------- a script run
\* Lines 545-555: the value the radio of question i returns, and the run
\* stores.  `pick` is the user's click, <<i, option>>, or None; a radio the
\* user did not click shows the stored answer when it is one of the options.
radio_value(S, i, pick) ==
    LET current == Get(S.user_answers, i)
        options == S.quiz[i + 1].options
    IN  IF ~IsNone(pick) /\ Val(pick)[1] = i THEN Some(Val(pick)[2])
        ELSE IF IsNone(current) THEN None
        ELSE IF Val(current) \in Elems(options) THEN current
        ELSE None

\* Lines 540-555: the answering view writes every radio's value.
render_answering(S, pick) ==
    LET N == Len(S.quiz)
        keys == DOMAIN S.user_answers \cup 0..(N - 1)
    IN  [S EXCEPT !.user_answers =
            [k \in keys |-> IF k \in 0..(N - 1) THEN radio_value(S, k, pick)
                            ELSE S.user_answers[k]]]

\* The record appended whatever the ledger holds.
save_to_history_always(S, checked, date) ==
    LET g == grade(S.quiz, S.user_answers)
    IN  [S EXCEPT !.quiz_history = Append(@, [date |-> date, score |-> g.percentage,
                                              correct |-> g.score, total |-> g.total])]

\* Lines 613-620: datetime.now() is read for the check (`checked`) and again
\* for the record (`date`).
save_to_history(S, checked, date) ==
    LET g == grade(S.quiz, S.user_answers)
    IN  IF ~\E i \in 1..Len(S.quiz_history) : S.quiz_history[i].date = checked
        THEN [S EXCEPT !.quiz_history = Append(@, [date |-> date, score |-> g.percentage,
                                                   correct |-> g.score, total |-> g.total])]
        ELSE S

\* Lines 558-620: the results view.
render_results(S, checked, date) == save_to_history(S, checked, date)

\* Lines 381-428 and the page bodies with no widget triggered: what a run
\* changes by rendering alone.
render(S, pick, checked, date) ==
    IF S.page = "quiz" /\ S.quiz # <<>>
    THEN IF ~S.show_results THEN render_answering(S, pick)
         ELSE render_results(S, checked, date)
    ELSE S

\* Continue Quiz offered on every run.
nav_quiz_shown_always(S) == TRUE

\* `if st.session_state.quiz_ready:` (line 404)
nav_quiz_shown(S) == S.quiz_ready

\* The View History button whatever the ledger holds.
nav_history_shown_always(S) == TRUE

\* `if st.session_state.quiz_history:` (line 409)
nav_history_shown(S) == S.quiz_history # <<>>

\* What the run leaves on the screen, from the state S it started to draw:
\* the View History button (line 409) and the Submit button (line 521).
screen(S) ==
    [nav_history |-> nav_history_shown(S),
     nav_quiz |-> nav_quiz_shown(S),
     submit_btn |-> S.page = "quiz" /\ S.quiz # <<>> /\ ~submit_disabled(S)]

\* ------------------------------------------------------- the statistics
\* A statistic: the value, or the exception Python raises instead.
Value(f) == [raised |-> "", value |-> f]
Raised(name) == [raised |-> name, value |-> [num |-> 0, den |-> 1]]

FracAdd(f, g) == Frac(f.num * g.den + g.num * f.den, f.den * g.den)
FracLeq(f, g) == f.num * g.den <= g.num * f.den

\* h["score"] for h in st.session_state.quiz_history
Scores(history) == [i \in 1..Len(history) |-> history[i].score]

\* sum(...) of line 418 and line 665
RECURSIVE FracSum(_)
FracSum(scores) ==
    IF scores = <<>> THEN [num |-> 0, den |-> 1]
    ELSE FracAdd(Head(scores), FracSum(Tail(scores)))

\* The middle of the smallest and the largest score.
mean_of_extremes(scores) ==
    IF Len(scores) = 0 THEN Raised("ZeroDivisionError")
    ELSE LET hi == CHOOSE m \in Elems(scores) : \A x \in Elems(scores) : FracLeq(x, m)
             lo == CHOOSE m \in Elems(scores) : \A x \in Elems(scores) : FracLeq(m, x)
             both == FracAdd(lo, hi)
         IN  Value(Frac(both.num, both.den * 2))

\* sum(...) / len(...): the division raises on an empty ledger.
mean(scores) ==
    IF Len(scores) = 0 THEN Raised("ZeroDivisionError")
    ELSE LET total == FracSum(scores)
         IN  Value(Frac(total.num, total.den * Len(scores)))

\* max(...) of line 674: raises on an empty ledger.
max_score(scores) ==
    IF Len(scores) = 0 THEN Raised("ValueError")
    ELSE Value(CHOOSE m \in Elems(scores) : \A x \in Elems(scores) : FracLeq(x, m))

\* The format {x:.1f}: x to one decimal, a tie going to the even digit.
format_1f(x) ==
    LET q == (10 * x.num) \div x.den
        r == (10 * x.num) % x.den
        tenths == IF 2 * r > x.den THEN q + 1
                  ELSE IF 2 * r < x.den THEN q
                  ELSE IF q % 2 = 0 THEN q ELSE q + 1
    IN  Frac(tenths, 10)

\* A statistic as it is drawn: formatted, or the exception that ends the run.
drawn(stat) == IF stat.raised # "" THEN stat ELSE Value(format_1f(stat.value))

\* The statistics with no test of the ledger before them.
sidebar_stats_unguarded(S) ==
    Some([count |-> Len(S.quiz_history), avg |-> drawn(mean(Scores(S.quiz_history)))])

\* Lines 416-428: the two boxes of the sidebar, None when they are not drawn.
sidebar_stats(S) ==
    IF S.quiz_history # <<>>
    THEN Some([count |-> Len(S.quiz_history), avg |-> drawn(mean(Scores(S.quiz_history)))])
    ELSE None

\* Lines 643-680: the three boxes of the history page, None when the page
\* shows the note and the Home button instead.
history_stats(S) ==
    IF S.quiz_history = <<>> THEN None
    ELSE Some([count |-> Len(S.quiz_history),
               avg |-> drawn(mean(Scores(S.quiz_history))),
               best |-> drawn(max_score(Scores(S.quiz_history)))])

\* ------------------------------------------------- inputs of the session
\* Every sequence over S of length at most n.
RECURSIVE SeqsUpTo(_, _)
SeqsUpTo(S, n) == IF n = 0 THEN {<<>>}
                  ELSE LET shorter == SeqsUpTo(S, n - 1)
                       IN  shorter \cup {Append(q, c) : q \in shorter, c \in S}

\* The document {"quiz": [items]} in the model's dialect.
Payload(items) == <<"{", "Q">> \o items \o <<"}">>

\* What the user types into the text area.
Texts == {<<>>, <<SP>>, <<SP, "t", NL>>}

\* The texts the API answers with in the session model: the documents of at
\* most MaxQuiz well-formed entries, a document with an entry that lacks a
\* key, and a text that is no JSON.
SessionContents ==
    {Payload(items) : items \in SeqsUpTo({"a"}, MaxQuiz)}
        \cup {Payload(<<"m">>), <<"x">>}

\* The outcomes of the request in the session model.
SessionOutcomes ==
    {Outcome("timeout", 0, FALSE, <<>>), Outcome("http", 500, TRUE, <<>>)}
        \cup {Outcome("http", 200, TRUE, content) : content \in SessionContents}

\* --------------------------------------------------------------- handlers
\* Each handler is the assignments a button's `if` block makes before its
\* st.rerun().

\* Lines 400-401
on_nav_home(S) == [S EXCEPT !.page = "main", !.show_results = FALSE]

\* Line 406
on_nav_quiz(S) == [S EXCEPT !.page = "quiz"]

\* Line 411
on_nav_history(S) == [S EXCEPT !.page = "history"]

\* The text appended whatever it is.
on_add_para_unchecked(S, user_input) ==
    [state |-> [S EXCEPT !.paragraphs = Append(@, strip(user_input))], rerun |-> TRUE]

\* Lines 449-454: what the Add Paragraph handler does with the text of the
\* text area, and whether it ends in st.rerun().
on_add_para(S, user_input) ==
    IF user_input # <<>> /\ strip(user_input) # <<>>
    THEN [state |-> [S EXCEPT !.paragraphs = Append(@, strip(user_input))], rerun |-> TRUE]
    ELSE [state |-> S, rerun |-> FALSE]

\* Clear All leaving the ready flag as it is.
on_clear_all_keeping_ready(S) == [S EXCEPT !.paragraphs = <<>>, !.quiz = <<>>]

\* Clear All taking the history ledger with the paragraphs.
on_clear_all_with_history(S) ==
    [S EXCEPT !.paragraphs = <<>>, !.quiz = <<>>, !.quiz_ready = FALSE,
              !.quiz_history = <<>>]

\* Lines 459-461
on_clear_all(S) == [S EXCEPT !.paragraphs = <<>>, !.quiz = <<>>, !.quiz_ready = FALSE]

\* Lines 483-487
on_generated(S, quiz_) ==
    [S EXCEPT !.quiz = quiz_, !.quiz_ready = TRUE, !.user_answers = <<>>,
              !.show_results = FALSE, !.page = "quiz"]

\* The answers and the flag reset before the return is looked at.
on_gen_quiz_eager(S, ret) ==
    LET S0 == [S EXCEPT !.user_answers = <<>>, !.show_results = FALSE]
    IN  IF error_is_truthy(ret.error) THEN [state |-> S0, rerun |-> FALSE]
        ELSE IF quiz_is_truthy(ret.quiz)
        THEN [state |-> on_generated(S0, Val(ret.quiz)), rerun |-> TRUE]
        ELSE [state |-> S0, rerun |-> FALSE]

\* The quiz stored without the resets of lines 485-486.
on_gen_quiz_keeping(S, ret) ==
    IF error_is_truthy(ret.error) THEN [state |-> S, rerun |-> FALSE]
    ELSE IF quiz_is_truthy(ret.quiz)
    THEN [state |-> [S EXCEPT !.quiz = Val(ret.quiz), !.quiz_ready = TRUE, !.page = "quiz"],
          rerun |-> TRUE]
    ELSE [state |-> S, rerun |-> FALSE]

\* Lines 480-491: what the Generate Quiz handler does with the return `ret`,
\* and whether it ends in st.rerun().
on_gen_quiz(S, ret) ==
    IF error_is_truthy(ret.error) THEN [state |-> S, rerun |-> FALSE]
    ELSE IF quiz_is_truthy(ret.quiz)
    THEN [state |-> on_generated(S, Val(ret.quiz)), rerun |-> TRUE]
    ELSE [state |-> S, rerun |-> FALSE]

\* Line 502
on_quiz_home_btn(S) == [S EXCEPT !.page = "main"]

\* Line 522
on_submit(S) == [S EXCEPT !.show_results = TRUE]

\* Lines 526-527 and 626-627
on_reset(S) == [S EXCEPT !.user_answers = <<>>, !.show_results = FALSE]

\* Lines 531-532
on_quiz_home(S) == [S EXCEPT !.page = "main", !.show_results = FALSE]

\* Back Home forgetting the quiz as well.
on_results_home_clearing(S) ==
    [S EXCEPT !.page = "main", !.quiz = None, !.quiz_ready = FALSE, !.show_results = FALSE]

\* Lines 632-634
on_results_home(S) ==
    [S EXCEPT !.page = "main", !.quiz_ready = FALSE, !.show_results = FALSE]

\* Line 647
on_history_home(S) == [S EXCEPT !.page = "main"]

\* Line 691
on_clear_history(S) == [S EXCEPT !.quiz_history = <<>>]

\* ---------------------------------------------------------------- actions
Store(S) ==
    /\ page' = S.page
    /\ paragraphs' = S.paragraphs
    /\ quiz' = S.quiz
    /\ user_answers' = S.user_answers
    /\ quiz_ready' = S.quiz_ready
    /\ show_results' = S.show_results
    /\ quiz_history' = S.quiz_history

\* The handlers that begin or end an attempt: Submit (line 521), Reset (525),
\* Try Again (625), a quiz stored by Generate Quiz (483), and the Home buttons
\* (399, 530, 631, 646).  Each of them ends its run in st.rerun().
AttemptEnds == {"submit_btn", "reset_btn", "try_again", "gen_quiz", "nav_home",
                "quiz_home_sidebar", "results_home", "history_home"}

\* 1 when a run left the ledger longer than it found it (line 614), else 0.
Appended(before, after) == IF Len(after) > Len(before) THEN 1 ELSE 0

\* The count stops at MaxRecorded.
Counted(n) == IF n > MaxRecorded THEN MaxRecorded ELSE n

\* A run that reaches the end of the script: it draws the sidebar and the
\* page from S and renders the page body.  `ev` is the widget that started
\* it, `pick` the radio the user clicked (or None), `ret` what generate_quiz
\* returned (None when it was not called).  The results view reads the
\* clock twice: `now`, then `date`.
Complete(S, pick, date, ev, ret) ==
    /\ LET drawn_ == render(S, pick, now, date)
       IN  /\ Store(drawn_)
           /\ attempt_records' = Counted(attempt_records
                                          + Appended(quiz_history, drawn_.quiz_history))
    /\ now' = date
    /\ view' = screen(S)
    /\ event' = ev
    /\ returned' = ret
    /\ rerun' = FALSE
    /\ UNCHANGED <<API_KEY, call, result>>

\* A run that ends in st.rerun() with the session state S.
Stop(S, date, ev, ret) ==
    /\ Store(S)
    /\ attempt_records' = IF ev \in AttemptEnds THEN 0
                          ELSE Counted(attempt_records + Appended(quiz_history, S.quiz_history))
    /\ now' = date
    /\ event' = ev
    /\ returned' = ret
    /\ rerun' = TRUE
    /\ UNCHANGED <<view, API_KEY, call, result>>

\* Whether a run drawn from S reaches the results view (line 558).
results_drawn(S) == S.page = "quiz" /\ S.quiz # <<>> /\ S.show_results

\* The minutes the second read of the clock can give in a run drawn from S.
Dates(S) == IF results_drawn(S) THEN {d \in {now, now + 1} : d <= MaxClock} ELSE {now}

\* The session after init_session_state (line 152); the secret holds a key
\* or an empty string.
SessionInit ==
    /\ page = defaults.page
    /\ paragraphs = defaults.paragraphs
    /\ quiz = defaults.quiz
    /\ user_answers = defaults.user_answers
    /\ quiz_ready = defaults.quiz_ready
    /\ show_results = defaults.show_results
    /\ quiz_history = defaults.quiz_history
    /\ now = 0
    /\ view = screen(defaults)
    /\ event = "start"
    /\ returned = None
    /\ rerun = FALSE
    /\ attempt_records = 0

Init ==
    /\ SessionInit
    /\ API_KEY \in {"", "sk"}
    /\ call = None
    /\ result = None

\* The run st.rerun() starts: no widget is triggered in it.
Rerun ==
    /\ rerun
    /\ \E date \in Dates(State) : Complete(State, None, date, "rerun", None)

\* Lines 385-387: the theme is toggled.
theme_btn ==
    /\ ~rerun
    /\ Stop(State, now, "theme_btn", None)

\* Lines 393-394: the slider moved; the run goes on to the page.
num_q_slider ==
    /\ ~rerun
    /\ \E date \in Dates(State) : Complete(State, None, date, "num_q_slider", None)

\* Lines 399-402
nav_home ==
    /\ ~rerun
    /\ Stop(on_nav_home(State), now, "nav_home", None)

\* Lines 404-407: the button was on the screen and the run the click starts
\* reaches it again.
nav_quiz ==
    /\ ~rerun
    /\ view.nav_quiz
    /\ nav_quiz_shown(State)
    /\ Stop(on_nav_quiz(State), now, "nav_quiz", None)

\* Lines 409-412, as nav_quiz.
nav_history ==
    /\ ~rerun
    /\ view.nav_history
    /\ nav_history_shown(State)
    /\ Stop(on_nav_history(State), now, "nav_history", None)

\* Lines 448-454
add_para ==
    /\ ~rerun
    /\ page = "main"
    /\ \E user_input \in Texts :
        LET h == on_add_para(State, user_input)
        IN  IF h.rerun
            THEN /\ Len(paragraphs) < MaxPars
                 /\ Stop(h.state, now, "add_para", None)
            ELSE Complete(h.state, None, now, "add_para", None)

\* Lines 457-463
clear_all ==
    /\ ~rerun
    /\ page = "main"
    /\ paragraphs # <<>>
    /\ Stop(on_clear_all(State), now, "clear_all", None)

\* Lines 472-491: Generate Quiz on a stored paragraph; the buttons of
\* paragraphs that hold the same text start the same run.  The slider's
\* value is taken at its default.
gen_quiz ==
    /\ ~rerun
    /\ page = "main"
    /\ \E para \in {paragraphs[i] : i \in 1..Len(paragraphs)}, resp \in SessionOutcomes :
        \E ret \in generate_quiz(para, 5, API_KEY, resp) :
            LET h == on_gen_quiz(State, ret)
            IN  IF h.rerun THEN Stop(h.state, now, "gen_quiz", Some(ret))
                ELSE Complete(h.state, None, now, "gen_quiz", Some(ret))

\* Lines 501-503: Go to Home on the quiz page that has no quiz.
quiz_home_btn ==
    /\ ~rerun
    /\ page = "quiz"
    /\ quiz = <<>>
    /\ Stop(on_quiz_home_btn(State), now, "quiz_home_btn", None)

\* Lines 521-523
submit_btn ==
    /\ ~rerun
    /\ page = "quiz"
    /\ view.submit_btn
    /\ Stop(on_submit(State), now, "submit_btn", None)

\* Lines 525-528
reset_btn ==
    /\ ~rerun
    /\ page = "quiz"
    /\ quiz # <<>>
    /\ Stop(on_reset(State), now, "reset_btn", None)

\* Lines 530-533
quiz_home_sidebar ==
    /\ ~rerun
    /\ page = "quiz"
    /\ quiz # <<>>
    /\ Stop(on_quiz_home(State), now, "quiz_home_sidebar", None)

\* Lines 547-555: the user picks an option of question i; the run goes on
\* from the top and the radios write their values.
radio ==
    /\ ~rerun
    /\ page = "quiz"
    /\ quiz # <<>>
    /\ ~show_results
    /\ \E i \in 0..(Len(quiz) - 1) :
        \E option \in Elems(quiz[i + 1].options) :
            /\ Get(user_answers, i) # Some(option)
            /\ Complete(State, Some(<<i, option>>), now, "radio", None)

\* Lines 625-628: the run draws the results view (lines 558-620) before it
\* reaches the button.
try_again ==
    /\ ~rerun
    /\ results_drawn(State)
    /\ \E date \in Dates(State) :
        Stop(on_reset(render_results(State, now, date)), date, "try_again", None)

\* Lines 631-635, reached as try_again is.
results_home ==
    /\ ~rerun
    /\ results_drawn(State)
    /\ \E date \in Dates(State) :
        Stop(on_results_home(render_results(State, now, date)), date, "results_home", None)

\* Lines 646-648
history_home ==
    /\ ~rerun
    /\ page = "history"
    /\ quiz_history = <<>>
    /\ Stop(on_history_home(State), now, "history_home", None)

\* Lines 690-693
clear_history ==
    /\ ~rerun
    /\ page = "history"
    /\ quiz_history # <<>>
    /\ Stop(on_clear_history(State), now, "clear_history", None)

\* A minute passes.
Tick ==
    /\ now < MaxClock
    /\ now' = now + 1
    /\ UNCHANGED <<session, API_KEY, view, event, returned, rerun, call, result,
                   attempt_records>>

Next ==
    \/ Rerun
    \/ theme_btn
    \/ num_q_slider
    \/ nav_home
    \/ nav_quiz
    \/ nav_history
    \/ add_para
    \/ clear_all
    \/ gen_quiz
    \/ submit_btn
    \/ reset_btn
    \/ quiz_home_sidebar
    \/ radio
    \/ try_again
    \/ results_home
    \/ history_home
    \/ clear_history
    \/ Tick

Spec == Init /\ [][Next]_vars

\* ------------------------------------------- the functions on their own
\* The pure functions of the program applied to arguments drawn from bounded
\* sets: `call` names the function and its arguments, `result` is None until
\* the function has returned.

\* Longest list of entries a document of these calls carries.
MaxItems == 2

\* A question with four options, as the prompt asks for.
FourOptions == [question |-> "Q6", options |-> <<"a) P", "b) Q", "c) R", "d) S">>,
                answer |-> "c) R"]

Docs ==
    {Payload(items) : items \in SeqsUpTo(ItemChars, MaxItems)}
        \cup {<<"{", "}">>, <<"5">>, <<"x">>, <<"{", "x", "}">>,
              <<NL>> \o Payload(<<"a">>) \o <<SP>>}

\* What stands before and after the document in a response.
Wrappers ==
    {<<<<>>, <<>>>>, <<FenceJson, Fence>>, <<FenceJson \o <<NL>>, <<NL>> \o Fence>>,
     <<FenceJson \o <<NL>>, <<NL>> \o Fence \o <<NL>>>>, <<<<"x", SP>>, <<SP, "y">>>>}

FnContents == {w[1] \o doc \o w[2] : w \in Wrappers, doc \in Docs}

FnOutcomes ==
    {Outcome("timeout", 0, FALSE, <<>>), Outcome("network", 0, FALSE, <<>>),
     Outcome("http", 200, FALSE, <<>>)}
        \cup {Outcome("http", c, TRUE, <<>>) : c \in {201, 401, 429, 500}}
        \cup {Outcome("http", 201, TRUE, Payload(<<"a">>))}
        \cup {Outcome("http", 200, TRUE, content) : content \in FnContents}

FnTexts == {<<>>, <<SP, NL>>, <<SP, "t">>}

GenerateCalls ==
    {[fn |-> "generate_quiz", text |-> t, num_questions |-> n, resp |-> r] :
        t \in FnTexts, n \in {1, 20}, r \in FnOutcomes}

\* The document `doc` between ```json and ```, with whitespace around it.
Wrap(doc, lead, trail) == FenceJson \o lead \o doc \o trail \o Fence

FenceSpace == {<<>>, <<NL>>, <<SP, NL>>}

ParseCalls ==
    {[fn |-> "parse", doc |-> d, lead |-> l, trail |-> t] :
        d \in Docs, l \in FenceSpace, t \in FenceSpace}

ShuffleCalls ==
    {[fn |-> "shuffle", q |-> q] :
        q \in {DecodeItem(c) : c \in {"a", "b", "c", "d"}} \cup {FourOptions}}

\* What the radio of question q can hold: nothing, or one of its options.
RadioValues(q) == {None} \cup {Some(o) : o \in Elems(q.options)}

\* The answer maps a user can have built over the first n questions.
RECURSIVE AnswerMaps(_, _)
AnswerMaps(quiz_, n) ==
    IF n = 0 THEN {<<>>}
    ELSE {((n - 1) :> v) @@ a : v \in RadioValues(quiz_[n]), a \in AnswerMaps(quiz_, n - 1)}

GradeQuizzes == SeqsUpTo({DecodeItem("a"), DecodeItem("b")}, MaxGrade) \ {<<>>}

\* Longest ledger the statistics are taken of.
MaxLedger == 3

\* Attempts a ledger can record, as <<correct, total>>.
Attempts == {<<0, 1>>, <<1, 1>>, <<1, 2>>, <<1, 3>>, <<1, 8>>}

\* Lines 615-620: the record of an attempt made in minute `date`.
record(attempt, date) ==
    [date |-> date, score |-> Frac(attempt[1] * 100, attempt[2]),
     correct |-> attempt[1], total |-> attempt[2]]

FnInit ==
    /\ SessionInit
    /\ API_KEY \in {"", "sk"}
    /\ result = None
    /\ \/ call \in GenerateCalls \cup ParseCalls \cup ShuffleCalls
       \/ \E q \in GradeQuizzes : \E a \in AnswerMaps(q, Len(q)) :
            call = [fn |-> "grade", quiz |-> q, answers |-> a]
       \/ \E n \in 0..MaxLedger : \E a \in [1..n -> Attempts] :
            call = [fn |-> "stats", history |-> [i \in 1..n |-> record(a[i], i)]]
    /\ call.fn # "generate_quiz" => API_KEY = "sk"

Returns(v) ==
    /\ result = None
    /\ result' = Some(v)
    /\ UNCHANGED <<session, API_KEY, now, view, event, returned, rerun, call,
                   attempt_records>>

CallGenerate ==
    /\ call.fn = "generate_quiz"
    /\ \E ret \in generate_quiz(call.text, call.num_questions, API_KEY, call.resp) :
        Returns(ret)

\* Lines 91-106 on the document as it is and on the document in a fence;
\* lines 91-93 once and twice on the fenced document.
CallParse ==
    /\ call.fn = "parse"
    /\ LET fenced == Wrap(call.doc, call.lead, call.trail)
       IN  Returns([plain |-> parse_response(clean_response(call.doc)),
                    fenced |-> parse_response(clean_response(fenced)),
                    once |-> clean_response(fenced),
                    twice |-> clean_response(clean_response(fenced))])

CallShuffle ==
    /\ call.fn = "shuffle"
    /\ \E r \in Picks(Len(call.q.options)) : Returns(shuffle_question(call.q, r))

CallGrade ==
    /\ call.fn = "grade"
    /\ Returns(grade(call.quiz, call.answers))

\* The sidebar and the history page drawn over the ledger of the call.
CallStats ==
    /\ call.fn = "stats"
    /\ LET S == [defaults EXCEPT !.page = "history", !.quiz_history = call.history]
       IN  Returns([sidebar |-> sidebar_stats(S), summary |-> history_stats(S)])

FnNext == CallGenerate \/ CallParse \/ CallShuffle \/ CallGrade \/ CallStats

SpecFunctions == FnInit /\ [][FnNext]_vars

\* ------------------------------------------------------ claims: session
GenReturned == event = "gen_quiz" /\ ~IsNone(returned)
GenFailed == GenReturned /\ IsNone(Val(returned).quiz)
GenSucceeded == GenReturned /\ ~IsNone(Val(returned).quiz)

\* C1: a Generate Quiz run whose generate_quiz call fails leaves the session
\* on the main page with every session-state field as it was before the run.
C1_FailedGenerateLeavesState ==
    [][GenFailed' => (page' = "main" /\ session' = session)]_vars

\* C1 witness: a failed call (a timeout) in a session that holds a quiz and
\* a chosen answer.
C1_Witness ==
    /\ GenFailed
    /\ Val(returned).error = Some(MsgTimeout)
    /\ quiz # <<>>
    /\ answered_count(State) > 0
    /\ quiz_history # <<>>

\* C2: when generate_quiz succeeds the handler stores the returned quiz,
\* leaves user_answers empty and show_results false and sets page to quiz,
\* whatever was stored before; the run st.rerun() then starts shows that
\* quiz with no question answered.
C2_SuccessfulGenerateResets ==
    [][/\ (GenSucceeded' /\ rerun') =>
            /\ quiz' = Val(Val(returned').quiz)
            /\ user_answers' = <<>>
            /\ ~show_results'
            /\ page' = "quiz"
       /\ (GenSucceeded /\ rerun /\ ~rerun') =>
            /\ quiz' = quiz
            /\ answered_count(State)' = 0
            /\ ~show_results'
            /\ page' = "quiz"]_vars

\* C2 witness: a newly generated quiz shown unanswered in a session whose
\* ledger holds the result of an earlier quiz.
C2_Witness ==
    /\ GenSucceeded
    /\ rerun
    /\ page = "quiz"
    /\ user_answers = <<>>
    /\ quiz_history # <<>>

\* C3: on the quiz page the Submit button is enabled exactly
\* when the number of answered questions equals the quiz length.
C3_SubmitEnabledIffAllAnswered ==
    (~rerun /\ page = "quiz" /\ quiz # <<>>) =>
        (view.submit_btn <=> answered_count(State) = Len(quiz))

\* The half of C3 the code keeps: an enabled Submit button means every
\* question is answered.
SubmitEnabledOnlyWhenAllAnswered ==
    (~rerun /\ page = "quiz" /\ view.submit_btn) =>
        answered_count(State) = Len(quiz)

\* The last question has just been answered and the Submit button drawn by
\* that run is disabled.
C3_Witness ==
    /\ event = "radio"
    /\ ~rerun
    /\ page = "quiz"
    /\ quiz # <<>>
    /\ answered_count(State) = Len(quiz)
    /\ ~view.submit_btn

\* Whether the ledger holds a record of minute m.
HasRecordOf(history, m) == \E i \in 1..Len(history) : history[i].date = m

\* C9: a run does not append to the ledger when the ledger already holds a
\* record of the current minute, and no two records of the ledger ever
\* share a minute (the clock never goes back).
C9_OneRecordPerMinute ==
    /\ [](\A i, j \in 1..Len(quiz_history) :
             quiz_history[i].date = quiz_history[j].date => i = j)
    /\ [][HasRecordOf(quiz_history, now) => Len(quiz_history') <= Len(quiz_history)]_vars

\* C9 witness: the results view drawn again (the slider was moved) in the
\* minute of the ledger's only record, which was there before that run.
C9_Witness ==
    /\ event = "num_q_slider"
    /\ results_drawn(State)
    /\ Len(quiz_history) = 1
    /\ quiz_history[1].date = now

\* C10: Clear All leaves the paragraph list empty, the stored quiz empty and
\* the ready flag false, and in every state a true ready flag means a
\* stored quiz.
C10_ClearAllClearsQuiz ==
    /\ event = "clear_all" => (paragraphs = <<>> /\ quiz = <<>> /\ ~quiz_ready)
    /\ quiz_ready => quiz # <<>>

\* C10 witness: Clear All in a session that had generated a quiz.
C10_Witness ==
    /\ event = "clear_all"
    /\ rerun
    /\ user_answers # <<>>
    /\ paragraphs = <<>>


\* ---------------------------------------------------- claims: functions
Returned(fn) == call.fn = fn /\ ~IsNone(result)

\* The number of questions whose stored answer is the very string of the key.
ExactMatches(quiz_, answers) ==
    Cardinality({i \in 1..Len(quiz_) :
                    (i - 1) \in DOMAIN answers /\ answers[i - 1] = <<quiz_[i].answer>>})

ExampleQuiz == <<DecodeItem("a"), DecodeItem("b")>>
ExampleAnswers == (0 :> Some("b) X")) @@ (1 :> Some("b) Y"))

\* C4: grading a quiz against an answer map gives as score the number of
\* indices whose answer is exactly the string of the key, as percentage
\* 100 * score / total, and as band "Excellent work!" iff the percentage is
\* at least 80, "Good job!" iff it is at least 60 and below 80, and
\* "Keep studying!" otherwise; answers "b) X", "b) Y" against the keys
\* "b) X", "a) Y" give score 1, percentage 50 and "Keep studying!".
C4_GradingCountsExactMatches ==
    Returned("grade") =>
        LET g == Val(result)
            total == Len(call.quiz)
            exact == ExactMatches(call.quiz, call.answers)
        IN  /\ g.score = exact
            /\ g.total = total
            /\ g.percentage.den > 0
            /\ g.percentage.num * total = 100 * exact * g.percentage.den
            /\ g.message \in {"Excellent work!", "Good job!", "Keep studying!"}
            /\ g.message = "Excellent work!" <=> 100 * exact >= 80 * total
            /\ g.message = "Good job!" <=>
                   (100 * exact >= 60 * total /\ 100 * exact < 80 * total)
            /\ (call.quiz = ExampleQuiz /\ call.answers = ExampleAnswers) =>
                   /\ g.score = 1
                   /\ g.percentage = [num |-> 50, den |-> 1]
                   /\ g.message = "Keep studying!"

C4_Witness ==
    /\ Returned("grade")
    /\ call.quiz = ExampleQuiz
    /\ call.answers = ExampleAnswers
    /\ Val(result).score = 1
    /\ Val(result).message = "Keep studying!"

\* Four of five right is 80 percent: the lower edge of "Excellent work!".
C4_EdgeOfExcellent ==
    /\ Returned("grade")
    /\ Val(result).score = 4
    /\ Val(result).total = 5
    /\ Val(result).message = "Excellent work!"

AnswerAmongOptions(q) == \E i \in 1..Len(q.options) : q.options[i] = q.answer

\* The shuffle keeps the answer string, and keeps it among the options when
\* it was among them.
ShuffleKeepsAnswer ==
    Returned("shuffle") =>
        /\ Val(result).answer = call.q.answer
        /\ AnswerAmongOptions(call.q) => AnswerAmongOptions(Val(result))

\* C5: a question whose answer is one of its options before the shuffle has
\* the same answer string after it, still one of its options; hence every
\* question of every quiz that generate_quiz hands over to be stored has its
\* answer among its options.
C5_AnswerAmongOptions ==
    /\ ShuffleKeepsAnswer
    /\ (Returned("generate_quiz") /\ ~IsNone(Val(result).quiz)) =>
           \A i \in 1..Len(Val(Val(result).quiz)) :
               AnswerAmongOptions(Val(Val(result).quiz)[i])

\* A returned quiz with a question whose answer is none of its options.
C5_Witness ==
    /\ Returned("generate_quiz")
    /\ ~IsNone(Val(result).quiz)
    /\ IsNone(Val(result).error)
    /\ \E i \in 1..Len(Val(Val(result).quiz)) : ~AnswerAmongOptions(Val(Val(result).quiz)[i])

Count(x, v) == Cardinality({i \in 1..Len(x) : x[i] = v})

\* The same strings, each as often in the one as in the other.
SameMultiset(x, y) ==
    /\ Len(x) = Len(y)
    /\ \A v \in Elems(x) \cup Elems(y) : Count(x, v) = Count(y, v)

\* C6: the shuffle of the options of a question is a permutation: after it
\* the options are the same strings with the same multiplicities and the
\* same length, whatever the random draws are, the draws that leave the
\* order as it was included; so it is for each question of a returned quiz.
C6_ShuffleIsPermutation ==
    /\ Returned("shuffle") => SameMultiset(Val(result).options, call.q.options)
    /\ (Returned("generate_quiz") /\ ~IsNone(Val(result).quiz)) =>
           LET sent == Val(parse_response(clean_response(call.resp.content)).quiz)
               kept == Val(Val(result).quiz)
           IN  /\ Len(kept) = Len(sent)
               /\ \A i \in 1..Len(sent) : SameMultiset(kept[i].options, sent[i].options)

\* The draws left four options in the order they had.
C6_Witness ==
    /\ Returned("shuffle")
    /\ Len(call.q.options) = 4
    /\ Val(result).options = call.q.options

\* The draws moved options of which two are the same string.
C6_DuplicatesMoved ==
    /\ Returned("shuffle")
    /\ Len(call.q.options) = 3
    /\ Val(result).options # call.q.options

OnlyWhitespace(text) == \A i \in 1..Len(text) : text[i] \in {" ", "\n", "\t", "\r"}

\* C7: for every question count, generate_quiz on a text that is empty or
\* all whitespace returns no quiz and the message asking for text, without
\* the request being made, and leaves the session state as it was.
C7_BlankTextIsRefused ==
    [][(call.fn = "generate_quiz" /\ OnlyWhitespace(call.text) /\ result' # result) =>
           /\ result' = Some([quiz |-> None, error |-> Some(MsgNoText), posted |-> FALSE])
           /\ session' = session]_vars

\* Whitespace with a key set and a response on offer that would have made a quiz.
C7_Witness ==
    /\ Returned("generate_quiz")
    /\ call.text = <<SP, NL>>
    /\ call.num_questions = 20
    /\ API_KEY = "sk"
    /\ call.resp.content = Payload(<<"a">>)
    /\ Val(result).error = Some(MsgNoText)

\* C8: for a valid JSON quiz document, the response that wraps it in a
\* fence (```json before, ``` after) parses to the same quiz as the
\* document on its own, and stripping the fences of the stripped response
\* once more changes nothing.
C8_FenceIsTransparent ==
    (Returned("parse") /\ json_loads(call.doc).ok) =>
        /\ Val(result).plain.ok
        /\ Val(result).fenced = Val(result).plain
        /\ Val(result).twice = Val(result).once

\* A fenced two-question document, the closing fence on the line of the document.
C8_Witness ==
    /\ Returned("parse")
    /\ call.doc = Payload(<<"a", "b">>)
    /\ call.lead = <<NL>>
    /\ call.trail = <<>>
    /\ Val(result).fenced.ok
    /\ Len(Val(Val(result).fenced.quiz)) = 2

\* ------------------------------------------------- claims: the ledger
\* The ledger `after` is the ledger `before` with one record put at its end.
ExtendedByOne(before, after) ==
    /\ Len(after) = Len(before) + 1
    /\ \A i \in 1..Len(before) : after[i] = before[i]

\* C11: the history ledger is append-only: a transition leaves it as it is,
\* or puts exactly one record at its end with the earlier records and their
\* order kept, or it is the Clear History action and leaves it empty; no
\* other action removes or changes a record.
C11_LedgerIsAppendOnly ==
    [][\/ quiz_history' = quiz_history
       \/ ExtendedByOne(quiz_history, quiz_history')
       \/ (event' = "clear_history" /\ quiz_history' = <<>>)]_vars

\* Clear All in a session whose ledger holds two records.
C11_Witness ==
    /\ event = "clear_all"
    /\ Len(quiz_history) = 2
    /\ quiz_history[1].date # quiz_history[2].date

\* What a run started in the current state draws of the statistics: the
\* sidebar on every page, the summary on the history page.
DrawnStats ==
    {sidebar_stats(State)} \cup (IF page = "history" THEN {history_stats(State)} ELSE {})

NoneRaised(boxes) ==
    \A name \in DOMAIN boxes \ {"count"} : boxes[name].raised = ""

\* C12: in every reachable state, on every page, the mean and the maximum of
\* the ledger's percentages are computed only when the ledger is not empty:
\* no division by a length of zero and no maximum of nothing happens, and
\* with an empty ledger no statistic, a zero least of all, is drawn.
C12_StatsOnlyOfNonEmptyLedger ==
    \A d \in DrawnStats :
        /\ ~IsNone(d) => NoneRaised(Val(d))
        /\ IsNone(d) <=> quiz_history = <<>>

\* The history page drawn over a ledger that has just been emptied.
C12_Witness ==
    /\ page = "history"
    /\ ~rerun
    /\ quiz_history = <<>>
    /\ event = "rerun"
    /\ history_stats(State) = None

\* ---------------------------------------------- claims: the statistics
\* The product of the denominators of the scores, and their sum over it.
RECURSIVE CommonDen(_)
CommonDen(scores) == IF scores = <<>> THEN 1 ELSE Head(scores).den * CommonDen(Tail(scores))

RECURSIVE ScaledSum(_, _)
ScaledSum(scores, D) ==
    IF scores = <<>> THEN 0
    ELSE Head(scores).num * (D \div Head(scores).den) + ScaledSum(Tail(scores), D)

Abs(x) == IF x < 0 THEN 0 - x ELSE x

\* The fraction d is the fraction n / m.
IsExactly(d, n, m) == d.num * m = n * d.den

\* The fraction d is a number of tenths no further than 0.05 from n / m.
IsToOneDecimal(d, n, m) ==
    /\ 10 % d.den = 0
    /\ 20 * Abs(d.num * m - n * d.den) <= d.den * m

\* The largest of the scores.
Largest(scores) ==
    CHOOSE m \in Elems(scores) : \A i \in 1..Len(scores) : scores[i].num * m.den <= m.num * scores[i].den

HundredFiftyZero == <<record(<<1, 1>>, 1), record(<<1, 2>>, 2), record(<<0, 1>>, 3)>>

\* C13 as stated: over a ledger that is not empty the average on display is
\* the sum of the percentages divided by the number of records and the best
\* on display is the largest percentage.
C13_DisplayedStatsAreExact ==
    (Returned("stats") /\ call.history # <<>>) =>
        LET scores == [i \in 1..Len(call.history) |-> call.history[i].score]
            D == CommonDen(scores)
            shown == Val(Val(result).summary)
        IN  /\ IsExactly(shown.avg.value, ScaledSum(scores, D), D * Len(scores))
            /\ IsExactly(shown.best.value, Largest(scores).num, Largest(scores).den)

\* C13: over a ledger that is not empty the average on display, in the
\* sidebar and on the history page, is the sum of the percentages divided by
\* the number of records, and the best on display is the largest
\* percentage, each to one decimal place; over the percentages 100, 50
\* and 0 they are 50 and 100.
C13_DisplayedStatsToOneDecimal ==
    (Returned("stats") /\ call.history # <<>>) =>
        LET scores == [i \in 1..Len(call.history) |-> call.history[i].score]
            D == CommonDen(scores)
            shown == Val(Val(result).summary)
            side == Val(Val(result).sidebar)
        IN  /\ shown.avg.raised = "" /\ shown.best.raised = ""
            /\ IsToOneDecimal(shown.avg.value, ScaledSum(scores, D), D * Len(scores))
            /\ IsToOneDecimal(shown.best.value, Largest(scores).num, Largest(scores).den)
            /\ side.avg = shown.avg
            /\ shown.count = Len(call.history) /\ side.count = Len(call.history)
            /\ call.history = HundredFiftyZero =>
                   /\ shown.avg.value = [num |-> 50, den |-> 1]
                   /\ shown.best.value = [num |-> 100, den |-> 1]

C13_Witness ==
    /\ Returned("stats")
    /\ call.history = HundredFiftyZero
    /\ Val(Val(result).summary).avg.value = [num |-> 50, den |-> 1]
    /\ Val(Val(result).summary).best.value = [num |-> 100, den |-> 1]

\* One attempt with one of three right: 33.3 is on display.
C13_ThirdShown ==
    /\ Returned("stats")
    /\ call.history = <<record(<<1, 3>>, 1)>>
    /\ Val(Val(result).summary).avg.value = [num |-> 333, den |-> 10]

\* ------------------------------------------ claims: the error handling
\* C14: every call of generate_quiz returns, raising nothing, and what it
\* returns is a quiz that is not empty with no error, or no quiz with an
\* error message that is not empty; a bad status, a timeout, a transport
\* failure, a body that cannot be read and a document of an unexpected
\* shape all end as such a message.
C14_GenerateQuizNeverRaises ==
    /\ (call.fn = "generate_quiz" /\ IsNone(result)) =>
           generate_quiz(call.text, call.num_questions, API_KEY, call.resp) # {}
    /\ Returned("generate_quiz") =>
           LET r == Val(result)
           IN  /\ ~IsRaise(r)
               /\ \/ ~IsNone(r.quiz) /\ Len(Val(r.quiz)) > 0 /\ IsNone(r.error)
                  \/ IsNone(r.quiz) /\ ~IsNone(r.error) /\ Val(r.error) # ""

\* A response whose document is valid JSON and no object.
C14_Witness ==
    /\ Returned("generate_quiz")
    /\ call.resp.kind = "http"
    /\ call.resp.has_content
    /\ call.resp.content = <<"5">>
    /\ Val(result) = [quiz |-> None, error |-> Some(MsgUnexpected), posted |-> TRUE]

\* The document of the response, read as the pipeline reads it.
Document == parse_response(clean_response(call.resp.content))

\* The response of the call got as far as a parsed object.
ParsedObject ==
    /\ call.fn = "generate_quiz"
    /\ ~OnlyWhitespace(call.text)
    /\ API_KEY # ""
    /\ call.resp.kind = "http" /\ call.resp.status = 200 /\ call.resp.has_content
    /\ Document.ok /\ Document.is_dict

LacksAKey(entry) == \E k \in {"question", "options", "answer"} : k \notin DOMAIN entry

\* C15: for a response that parsed, generate_quiz fails with "No questions
\* were generated" when the quiz member is absent or empty, and with
\* "Invalid question format received" when an entry of the list, at whatever
\* position, lacks one of question, options and answer; in both cases no
\* quiz is returned.
C15_EmptyAndMalformedQuizzes ==
    (ParsedObject /\ ~IsNone(result)) =>
        LET r == Val(result)
            entries == IF IsNone(Document.quiz) THEN <<>> ELSE Val(Document.quiz)
        IN  /\ entries = <<>> =>
                (IsNone(r.quiz) /\ r.error = Some(MsgNoQuestions))
            /\ (\E i \in 1..Len(entries) : LacksAKey(entries[i])) =>
                (IsNone(r.quiz) /\ r.error = Some(MsgFormat))

\* The half of C15 about the missing and the empty list.
NoQuestionsWhenNoneSent ==
    (ParsedObject /\ ~IsNone(result) /\
        (IsNone(Document.quiz) \/ Document.quiz = Some(<<>>))) =>
        Val(result) = [quiz |-> None, error |-> Some(MsgNoQuestions), posted |-> TRUE]

\* An entry that lacks a key never lets a quiz be returned.
NoQuizWhenAnEntryLacksAKey ==
    (ParsedObject /\ ~IsNone(result) /\ ~IsNone(Document.quiz) /\
        (\E i \in 1..Len(Val(Document.quiz)) : LacksAKey(Val(Document.quiz)[i]))) =>
        /\ IsNone(Val(result).quiz)
        /\ Val(result).error \in {Some(MsgFormat), Some(MsgUnexpected)}

\* An entry with "options": 5 before an entry without an answer.
C15_Witness ==
    /\ ParsedObject
    /\ ~IsNone(result)
    /\ call.resp.content = Payload(<<"n", "m">>)
    /\ Val(result).error = Some(MsgUnexpected)

\* The request of the call was made and answered with a status.
Answered ==
    /\ Returned("generate_quiz")
    /\ ~OnlyWhitespace(call.text)
    /\ API_KEY # ""
    /\ call.resp.kind = "http"

\* The message the spec gives to a status that is no success.
StatusMessage(c) ==
    IF c = 401 THEN "Invalid API key. Please check your OpenAI API key."
    ELSE IF c = 429 THEN "Rate limit exceeded. Please try again in a moment."
    ELSE "API Error " \o ToString(c)

Is2xx(c) == 200 <= c /\ c <= 299

\* C16: a response whose status is not 2xx gives no quiz and the message of
\* its status: 401 the invalid key, 429 the rate limit, any other code c
\* "API Error c"; a response whose status is 2xx is not reported as an API
\* error.
C16_StatusMapping ==
    Answered =>
        LET c == call.resp.status
            r == Val(result)
        IN  /\ ~Is2xx(c) => (IsNone(r.quiz) /\ r.error = Some(StatusMessage(c)))
            /\ Is2xx(c) => r.error # Some(StatusMessage(c))

\* What the code does: every status but 200 is reported.
EveryStatusBut200IsReported ==
    Answered =>
        (call.resp.status # 200 <=>
            Val(result) = [quiz |-> None, error |-> Some(StatusMessage(call.resp.status)),
                           posted |-> TRUE])

\* A 201 with a quiz in its body.
C16_Witness ==
    /\ Answered
    /\ call.resp.status = 201
    /\ call.resp.content = Payload(<<"a">>)
    /\ Val(result).error = Some("API Error 201")
    /\ IsNone(Val(result).quiz)

\* ------------------------------------------------- claims: navigation
\* C17: from whatever page, the transition that sets the page to history is
\* taken only from states whose ledger is not empty.
C17_HistoryOnlyWithRecords ==
    [][(\/ (page' = "history" /\ page # "history")
        \/ (event' = "nav_history" /\ ~rerun /\ rerun')) =>
           (quiz_history # <<>> /\ page' = "history" /\ quiz_history' = quiz_history)]_vars

\* View History clicked on the results view of the quiz page.
C17_Witness ==
    /\ event = "nav_history"
    /\ rerun
    /\ page = "history"
    /\ show_results
    /\ quiz_history # <<>>

\* ------------------------------------------------ claims: paragraphs
\* The text is empty or nothing but whitespace.
IsBlankText(text) == \A i \in 1..Len(text) : text[i] \in {" ", "\n", "\t", "\r"}

\* C18: Add Paragraph with a text that is empty or all whitespace leaves the
\* paragraph list and the rest of the state as they are; with any other
\* text it puts exactly one entry at the end of the list and leaves the
\* earlier entries as they are.  So every stored paragraph is a string that
\* is not empty, in every reachable state, and a stored paragraph is never
\* changed, only removed by Clear All.
C18_AddParagraph ==
    /\ [](\A text \in Texts :
            LET h == on_add_para(State, text)
            IN  IF IsBlankText(text)
                THEN h.state = State /\ ~h.rerun
                ELSE /\ ExtendedByOne(paragraphs, h.state.paragraphs)
                     /\ [h.state EXCEPT !.paragraphs = paragraphs] = State)
    /\ [][(event' = "add_para" /\ ~rerun) =>
            \/ (~rerun' /\ session' = session)
            \/ (rerun' /\ ExtendedByOne(paragraphs, paragraphs'))]_vars
    /\ [](\A i \in 1..Len(paragraphs) : paragraphs[i] # <<>> /\ ~IsBlankText(paragraphs[i]))
    /\ [][\/ paragraphs' = paragraphs
          \/ ExtendedByOne(paragraphs, paragraphs')
          \/ (event' = "clear_all" /\ paragraphs' = <<>>)]_vars

\* Add Paragraph pressed over a blank text area in a session that holds a
\* paragraph and a quiz: the run shows the warning.
C18_Witness ==
    /\ event = "add_para"
    /\ ~rerun
    /\ paragraphs = <<<<"t">>>>
    /\ quiz # <<>>

\* The text " t\n" stored as "t".
C18_Appended ==
    /\ event = "add_para"
    /\ rerun
    /\ paragraphs = <<<<"t">>>>

\* ------------------------------------------------ claims: reset and home
\* The run of a click on button ev, up to the st.rerun() of its handler.
Clicked(ev) == event' = ev /\ ~rerun /\ rerun'

\* C19: the reset of the quiz page, by the Reset button or by Try Again,
\* leaves the answers empty and the results hidden, keeps the page quiz, and
\* leaves the stored quiz, the quiz-ready flag, the paragraphs and the
\* history ledger as they were.
C19_ResetFrame ==
    [][(Clicked("reset_btn") \/ Clicked("try_again")) =>
          /\ user_answers' = <<>>
          /\ show_results' = FALSE
          /\ page = "quiz" /\ page' = "quiz"
          /\ quiz' = quiz
          /\ quiz_ready' = quiz_ready
          /\ paragraphs' = paragraphs
          /\ quiz_history' = quiz_history]_vars

\* What holds of the reset: the Reset button leaves the ledger as it was, and
\* the run of a click on Try Again leaves it as it was or draws the results
\* view once more and appends one record of the attempt shown.
ResetFrameButLedger ==
    [][(Clicked("reset_btn") \/ Clicked("try_again")) =>
          /\ user_answers' = <<>>
          /\ show_results' = FALSE
          /\ page = "quiz" /\ page' = "quiz"
          /\ quiz' = quiz
          /\ quiz_ready' = quiz_ready
          /\ paragraphs' = paragraphs
          /\ \/ quiz_history' = quiz_history
             \/ /\ event' = "try_again"
                /\ ExtendedByOne(quiz_history, quiz_history')
                /\ \A i \in 1..Len(quiz_history) : quiz_history[i].date # now]_vars

\* Try Again clicked a minute after the results were first drawn: the ledger
\* holds two records of the one attempt.
C19_Witness ==
    /\ event = "try_again"
    /\ rerun
    /\ user_answers = <<>>
    /\ ~show_results
    /\ page = "quiz"
    /\ Len(quiz_history) = 2
    /\ quiz_history[1].date = 0
    /\ quiz_history[2].date = 1
    /\ quiz_history[1].correct = quiz_history[2].correct

\* Reset pressed with an answer picked.
C19_ResetPressed ==
    /\ event = "reset_btn"
    /\ rerun
    /\ user_answers = <<>>
    /\ quiz # <<>>
    /\ quiz_ready

\* A click that goes home from the quiz page.
HomeFromQuiz ==
    \/ (Clicked("nav_home") /\ page = "quiz")
    \/ Clicked("quiz_home_sidebar")
    \/ Clicked("results_home")

\* What every home transition from the quiz page does.
HomeEffect ==
    /\ page = "quiz"
    /\ page' = "main"
    /\ show_results' = FALSE
    /\ event' # "results_home" => (quiz' = quiz /\ quiz_ready' = quiz_ready)

\* C20 as stated: every home transition from the quiz page sets the page to
\* main and hides the results; the sidebar Home and the Home of the quiz
\* page leave the stored quiz and the quiz-ready flag as they were, and Back
\* Home of the results view clears the stored quiz and the quiz-ready flag.
C20_HomeClearsQuizFromResults ==
    [][HomeFromQuiz =>
          /\ HomeEffect
          /\ event' = "results_home" => (quiz' = None /\ quiz_ready' = FALSE)]_vars

\* C20: every home transition from the quiz page sets the page to main and
\* hides the results; the sidebar Home and the Home of the quiz page leave
\* the stored quiz and the quiz-ready flag as they were, and Back Home of the
\* results view leaves the stored quiz as it was and clears the quiz-ready
\* flag.
C20_HomeFromQuiz ==
    [][HomeFromQuiz =>
          /\ HomeEffect
          /\ event' = "results_home" => (quiz' = quiz /\ quiz_ready' = FALSE)]_vars

\* Back Home pressed on the results view: the quiz is still stored and is no
\* longer ready.
C20_Witness ==
    /\ event = "results_home"
    /\ rerun
    /\ page = "main"
    /\ ~show_results
    /\ quiz # None
    /\ ~quiz_ready

\* The sidebar Home pressed on the results view.
C20_SidebarHome ==
    /\ event = "nav_home"
    /\ rerun
    /\ page = "main"
    /\ ~show_results
    /\ quiz # None
    /\ quiz_ready
    /\ quiz_history # <<>>

\* The Home button of the quiz page pressed.
C20_QuizPageHome ==
    /\ event = "quiz_home_sidebar"
    /\ rerun
    /\ page = "main"
    /\ quiz # None
    /\ quiz_ready

\* A quiz that is stored and not ready is never drawn: the quiz page is
\* entered only with the flag set.
QuizDrawnOnlyWhenReady == page = "quiz" => (quiz_ready /\ quiz # None)

\* ------------------------------------------------ claims: one attempt
\* C21: one submitted attempt produces at most one history record: between
\* a submit and the next reset, home or stored quiz the ledger grows by at
\* most one record, however often the results view is drawn, and in whatever
\* minute.
C21_OneRecordPerAttempt == attempt_records <= 1

\* What holds instead: a run appends a second record of the attempt only in
\* a minute no record of the ledger carries (line 613).
SecondRecordOnlyInANewMinute ==
    [][(attempt_records = 1 /\ attempt_records' = 2) =>
          /\ results_drawn(State)
          /\ \A i \in 1..Len(quiz_history) : quiz_history[i].date # now
          /\ ExtendedByOne(quiz_history, quiz_history')]_vars

\* The results drawn in minute 0 and, the theme toggled, again in minute 1:
\* two records of the one attempt.
C21_Witness ==
    /\ event = "theme_btn"
    /\ results_drawn(State)
    /\ attempt_records = 2
    /\ Len(quiz_history) = 2
    /\ quiz_history[1].date = 0
    /\ quiz_history[2].date = 1
    /\ quiz_history[1].correct = quiz_history[2].correct

\* ------------------------------------------------ claims: the quiz page
\* C22: in every reachable state the quiz page has a stored quiz that is not
\* empty.  The page is entered only by a generate_quiz that returned a quiz
\* or by Continue Quiz, which is offered only while quiz_ready is set, and
\* the quiz is emptied only by Clear All on the main page; so the branch of
\* the quiz page for no quiz is never drawn, and the divisions by the length
\* of the quiz (progress, percentage) never divide by zero.
C22_QuizPageHasAQuiz ==
    /\ [](page = "quiz" => (quiz # <<>> /\ Len(quiz) >= 1))
    /\ [](quiz_ready => quiz # <<>>)
    /\ [][(page' = "quiz" /\ page # "quiz") =>
            \/ /\ event' = "gen_quiz"
               /\ returned' # None
               /\ quiz_is_truthy(Val(returned').quiz)
               /\ quiz' = Val(Val(returned').quiz)
            \/ /\ event' = "nav_quiz"
               /\ quiz_ready
               /\ quiz' = quiz]_vars
    /\ [][(quiz # <<>> /\ quiz' = <<>>) => (event' = "clear_all" /\ page = "main")]_vars
    /\ [](\A i \in 1..Len(quiz_history) : quiz_history[i].total >= 1)

\* Continue Quiz pressed on the history page, the results of the stored quiz
\* in the ledger.
C22_Witness ==
    /\ event = "nav_quiz"
    /\ rerun
    /\ page = "quiz"
    /\ quiz # <<>>
    /\ quiz_ready
    /\ quiz_history # <<>>

\* Clear All pressed with a quiz stored: the main page, no quiz, not ready.
C22_Cleared ==
    /\ event = "clear_all"
    /\ rerun
    /\ page = "main"
    /\ quiz = <<>>
    /\ ~quiz_ready
    /\ quiz_history # <<>>

\* ------------------------------------------------ claims: the answers graded
\* Every question of the quiz has an answer that is not None, and the map has
\* no other key.
AllAnswered(S) ==
    /\ DOMAIN S.user_answers = 0..(Len(S.quiz) - 1)
    /\ \A i \in DOMAIN S.user_answers : S.user_answers[i] # None

=============================================================================
